---- MODULE Spec2Model ----
(***************************************************************************)
(* gold-dust-vpn: the Oxen-first, Tor-fallback router (src/src/router.rs)  *)
(* and the command-line front end (src/src/main.rs).                       *)
(*                                                                         *)
(* Latencies (f64 milliseconds) are modelled as integers and failure rates *)
(* (f64 in [0,1]) as integers per mille.  Every latency of the program is  *)
(* an ordinary number, so partial_cmp never yields None and the unwrap_or  *)
(* branch of the comparator is never taken.                                *)
(***************************************************************************)
EXTENDS Naturals, Sequences, FiniteSets

\* ---------------------------------------------------------------- bounds
\* longest recorded history of Router calls
MaxCalls == 3
\* longest snapshot handed to the selection in SpecSelect
MaxBackends == 3

\* targets of the route requests (opaque host:port strings)
Targets == {"example.com:443", "example.org:80"}

\* ---------------------------------------------------------------- data
\* enum BackendKind
BackendKind == {"Oxen", "Tor"}

\* struct BackendHealth
BackendHealth(name, kind, latency_ms, failure_rate, enabled) ==
    [name |-> name, kind |-> kind, latency_ms |-> latency_ms,
     failure_rate |-> failure_rate, enabled |-> enabled]

\* struct GoldDustConfig { backends: BackendConfig { oxen_enabled, tor_enabled } }
GoldDustConfig == [oxen_enabled : BOOLEAN, tor_enabled : BOOLEAN]

VARIABLES
    cfg,        \* Router.cfg, and the cfg loaded by main
    provided,   \* the snapshot handed to the selection (SpecSelect only)
    calls,      \* history of Router::choose_backend calls
    status_ret, \* what the last Router::status call returned
    stdout      \* what the last run of main printed

vars == <<cfg, provided, calls, status_ret, stdout>>

\* ---------------------------------------------------------------- router.rs
\* sample_health with the Tor flag read from oxen_enabled
sample_health_tor_copies_oxen(c) ==
    << BackendHealth("oxen-node-1", "Oxen", 55, 20, c.oxen_enabled),
       BackendHealth("oxen-node-2", "Oxen", 70, 40, c.oxen_enabled),
       BackendHealth("tor-exit-1", "Tor", 250, 10, c.oxen_enabled) >>

\* sample_health with one instance enabled whatever the configuration says
sample_health_override(c) ==
    << BackendHealth("oxen-node-1", "Oxen", 55, 20, c.oxen_enabled),
       BackendHealth("oxen-node-2", "Oxen", 70, 40, TRUE),
       BackendHealth("tor-exit-1", "Tor", 250, 10, c.tor_enabled) >>

\* Router::sample_health
sample_health(c) ==
    << BackendHealth("oxen-node-1", "Oxen", 55, 20, c.oxen_enabled),
       BackendHealth("oxen-node-2", "Oxen", 70, 40, c.oxen_enabled),
       BackendHealth("tor-exit-1", "Tor", 250, 10, c.tor_enabled) >>

\* Result<RouterSnapshot, _> of Router::status
status(c) == [ok |-> TRUE, backends |-> sample_health(c)]

\* the filter without its b.enabled test
RECURSIVE candidates_ignore_enabled(_, _)
candidates_ignore_enabled(backends, kind) ==
    IF backends = <<>> THEN <<>>
    ELSE LET b == Head(backends)
             rest == candidates_ignore_enabled(Tail(backends), kind)
         IN IF b.kind = kind THEN <<b>> \o rest ELSE rest

\* .iter().filter(|b| b.enabled && matches!(b.kind, kind)).collect()
RECURSIVE candidates(_, _)
candidates(backends, kind) ==
    IF backends = <<>> THEN <<>>
    ELSE LET b == Head(backends)
             rest == candidates(Tail(backends), kind)
         IN IF b.enabled /\ b.kind = kind THEN <<b>> \o rest ELSE rest

\* the comparator with its operands exchanged
latency_less_reversed(a, b) == b.latency_ms < a.latency_ms

\* the comparator of sort_by: a.latency_ms.partial_cmp(&b.latency_ms) is Less
latency_less(a, b) == a.latency_ms < b.latency_ms

\* an insertion that puts x in front of the elements equal to it
RECURSIVE insert_sorted_unstable(_, _)
insert_sorted_unstable(sorted, x) ==
    IF sorted = <<>> THEN <<x>>
    ELSE IF x.latency_ms <= Head(sorted).latency_ms THEN <<x>> \o sorted
    ELSE <<Head(sorted)>> \o insert_sorted_unstable(Tail(sorted), x)

\* one insertion of the stable sort: x goes behind every element that is
\* not greater than it
RECURSIVE insert_sorted(_, _)
insert_sorted(sorted, x) ==
    IF sorted = <<>> THEN <<x>>
    ELSE IF latency_less(x, Head(sorted)) THEN <<x>> \o sorted
    ELSE <<Head(sorted)>> \o insert_sorted(Tail(sorted), x)

\* slice::sort_by, a stable sort: equal elements keep their order
RECURSIVE sort_by_acc(_, _)
sort_by_acc(sorted, rest) ==
    IF rest = <<>> THEN sorted
    ELSE sort_by_acc(insert_sorted(sorted, Head(rest)), Tail(rest))

sort_by(v) == sort_by_acc(<<>>, v)

\* placeholder for the backend of an Err result
NoBackend == BackendHealth("", "", 0, 0, FALSE)

\* a choice that drops the requested target
Ok_blank_target(target, backend) ==
    [ok |-> TRUE, target |-> "", backend |-> backend, err |-> ""]

\* Ok(BackendChoice { target, backend })
Ok(target, backend) ==
    [ok |-> TRUE, target |-> target, backend |-> backend, err |-> ""]

\* Err("no enabled backends available".into())
Err(msg) == [ok |-> FALSE, target |-> "", backend |-> NoBackend, err |-> msg]

\* a selection that looks at the Tor exits first
select_backend_tor_first(backends, target) ==
    LET oxen_candidates == sort_by(candidates(backends, "Oxen"))
        tor_candidates == sort_by(candidates(backends, "Tor"))
    IN IF tor_candidates # <<>> THEN Ok(target, Head(tor_candidates))
       ELSE IF oxen_candidates # <<>> THEN Ok(target, Head(oxen_candidates))
       ELSE Err("no enabled backends available")

\* Router::choose_backend after the snapshot is taken: the selection
select_backend(backends, target) ==
    LET oxen_candidates == sort_by(candidates(backends, "Oxen"))
        tor_candidates == sort_by(candidates(backends, "Tor"))
    IN IF oxen_candidates # <<>> THEN Ok(target, Head(oxen_candidates))
       ELSE IF tor_candidates # <<>> THEN Ok(target, Head(tor_candidates))
       ELSE Err("no enabled backends available")

\* Router::choose_backend
choose_backend(c, target) == select_backend(sample_health(c), target)

\* ---------------------------------------------------------------- main.rs
\* check_backends with the Tor line read from oxen_enabled
check_backends_swapped(c) ==
    << IF c.oxen_enabled THEN "Oxen: enabled (stubbed healthy)"
                         ELSE "Oxen: disabled",
       IF c.oxen_enabled THEN "Tor: enabled (stubbed healthy)"
                         ELSE "Tor: disabled" >>

\* check_backends, before lines.join("\n"): the lines
check_backends(c) ==
    << IF c.oxen_enabled THEN "Oxen: enabled (stubbed healthy)"
                         ELSE "Oxen: disabled",
       IF c.tor_enabled THEN "Tor: enabled (stubbed healthy)"
                        ELSE "Tor: disabled" >>

\* a front-end decision that tests tor_enabled first
cli_choose_backend_tor_first(c, target) ==
    IF c.tor_enabled THEN [choice |-> "Tor", reason |-> ""]
    ELSE IF c.oxen_enabled THEN [choice |-> "Oxen", reason |-> ""]
    ELSE [choice |-> "None", reason |-> "no backends enabled in config"]

\* choose_backend of main.rs, enum BackendChoice { Oxen, Tor, None(reason) }
cli_choose_backend(c, target) ==
    IF c.oxen_enabled THEN [choice |-> "Oxen", reason |-> ""]
    ELSE IF c.tor_enabled THEN [choice |-> "Tor", reason |-> ""]
    ELSE [choice |-> "None", reason |-> "no backends enabled in config"]

\* ---------------------------------------------------------------- actions
NoStatus == [ok |-> FALSE, backends |-> <<>>]
NoOutput == [command |-> "none", target |-> "", choice |-> "", lines |-> <<>>]

\* Router::new(cfg), nothing called or printed yet
Init ==
    /\ cfg \in GoldDustConfig
    /\ provided = <<>>
    /\ calls = <<>>
    /\ status_ret = NoStatus
    /\ stdout = NoOutput

\* router.status()
Status ==
    /\ status_ret' = status(cfg)
    /\ UNCHANGED <<cfg, provided, calls, stdout>>

\* router.choose_backend(target)
ChooseBackend ==
    /\ Len(calls) < MaxCalls
    /\ \E target \in Targets :
         calls' = Append(calls, [target |-> target,
                                 snapshot |-> sample_health(cfg),
                                 result |-> choose_backend(cfg, target)])
    /\ UNCHANGED <<cfg, provided, status_ret, stdout>>

\* main, Command::Status
CliStatus ==
    /\ stdout' = [command |-> "status", target |-> "", choice |-> "",
                  lines |-> check_backends(cfg)]
    /\ UNCHANGED <<cfg, provided, calls, status_ret>>

\* the println! of main for a choice
route_line(choice, target) ==
    IF choice.choice = "Oxen"
    THEN "Gold Dust VPN would route " \o target \o " via OXEN (primary)."
    ELSE IF choice.choice = "Tor"
    THEN "Gold Dust VPN would route " \o target \o " via TOR (fallback)."
    ELSE "No backend available for " \o target \o ": " \o choice.reason

\* main, Command::Route { target }
CliRoute ==
    /\ \E target \in Targets :
         LET choice == cli_choose_backend(cfg, target)
         IN stdout' = [command |-> "route", target |-> target,
                       choice |-> choice.choice,
                       lines |-> <<route_line(choice, target)>>]
    /\ UNCHANGED <<cfg, provided, calls, status_ret>>

Next == Status \/ ChooseBackend \/ CliStatus \/ CliRoute

Spec == Init /\ [][Next]_vars

\* ---------------------------------------------------------------- selection
\* The selection of Router::choose_backend (filter, sort_by, first) applied
\* to snapshots other than the fixed table of sample_health: any catalog of
\* at most MaxBackends backends with distinct names, each enabled by the
\* configuration flag of its kind.
Names == {"oxen-node-1", "oxen-node-2", "tor-exit-1", "tor-exit-2"}
Latencies == {55, 70}

CatalogEntry == [name : Names, kind : BackendKind, latency_ms : Latencies]

Catalogs ==
    { s \in UNION { [1..n -> CatalogEntry] : n \in 0..MaxBackends } :
        \A i, j \in DOMAIN s : i # j => s[i].name # s[j].name }

\* enabled: oxen_enabled for an Oxen backend, tor_enabled for a Tor backend
kind_enabled(c, kind) == IF kind = "Oxen" THEN c.oxen_enabled ELSE c.tor_enabled

snapshot_of(c, catalog) ==
    [i \in DOMAIN catalog |->
        BackendHealth(catalog[i].name, catalog[i].kind, catalog[i].latency_ms,
                      20, kind_enabled(c, catalog[i].kind))]

InitSelect ==
    /\ cfg \in GoldDustConfig
    /\ \E catalog \in Catalogs : provided = snapshot_of(cfg, catalog)
    /\ calls = <<>>
    /\ status_ret = NoStatus
    /\ stdout = NoOutput

\* the elements of a sequence in the opposite order
RECURSIVE Reverse(_)
Reverse(s) == IF s = <<>> THEN <<>> ELSE Append(Reverse(Tail(s)), Head(s))

\* a selection that keeps a position between calls: every second call looks
\* at the snapshot from its other end
ChooseProvided_rotating ==
    /\ Len(calls) < MaxCalls
    /\ \E target \in Targets :
         calls' = Append(calls,
                    [target |-> target,
                     snapshot |-> provided,
                     result |-> select_backend(
                                  IF Len(calls) % 2 = 0 THEN provided
                                  ELSE Reverse(provided), target)])
    /\ UNCHANGED <<cfg, provided, status_ret, stdout>>

\* choose_backend with the provided snapshot in the place of sample_health
ChooseProvided ==
    /\ Len(calls) < MaxCalls
    /\ \E target \in Targets :
         calls' = Append(calls, [target |-> target,
                                 snapshot |-> provided,
                                 result |-> select_backend(provided, target)])
    /\ UNCHANGED <<cfg, provided, status_ret, stdout>>

NextSelect == ChooseProvided

SpecSelect == InitSelect /\ [][NextSelect]_vars

\* ---------------------------------------------------------------- properties
\* the enabled records of a kind in a snapshot
EnabledOfKind(snapshot, kind) ==
    { k \in DOMAIN snapshot : snapshot[k].enabled /\ snapshot[k].kind = kind }

\* C1: while oxen_enabled is true every choose_backend call succeeds with a
\* backend of kind Oxen, whatever tor_enabled is, and no call returns a Tor
\* backend while its snapshot holds an enabled Oxen record.
C1_PrimaryPreferred ==
    \A i \in DOMAIN calls :
        LET e == calls[i] IN
        /\ cfg.oxen_enabled => e.result.ok /\ e.result.backend.kind = "Oxen"
        /\ EnabledOfKind(e.snapshot, "Oxen") # {}
              => ~(e.result.ok /\ e.result.backend.kind = "Tor")

C1_Witness ==
    /\ cfg.oxen_enabled /\ cfg.tor_enabled
    /\ calls # <<>>
    /\ EnabledOfKind(calls[1].snapshot, "Tor") # {}
    /\ calls[1].result.backend.kind = "Oxen"

\* C2: with oxen_enabled false and tor_enabled true every choose_backend
\* call, for every target, succeeds with the Tor backend "tor-exit-1".
C2_FallbackChosen ==
    (~cfg.oxen_enabled /\ cfg.tor_enabled) =>
        \A i \in DOMAIN calls :
            /\ calls[i].result.ok
            /\ calls[i].result.backend.kind = "Tor"
            /\ calls[i].result.backend.name = "tor-exit-1"

C2_Witness ==
    /\ ~cfg.oxen_enabled /\ cfg.tor_enabled
    /\ \A t \in Targets :
          \E i \in DOMAIN calls :
             calls[i].target = t /\ calls[i].result.backend.name = "tor-exit-1"

\* C3: choose_backend returns the error exactly when its snapshot holds no
\* enabled Oxen record and no enabled Tor record, and that is exactly when
\* both flags are false.
C3_ErrorIffNothingEnabled ==
    \A i \in DOMAIN calls :
        LET e == calls[i]
            none_enabled == /\ EnabledOfKind(e.snapshot, "Oxen") = {}
                            /\ EnabledOfKind(e.snapshot, "Tor") = {}
        IN /\ ~e.result.ok <=> none_enabled
           /\ none_enabled <=> (~cfg.oxen_enabled /\ ~cfg.tor_enabled)
           /\ ~e.result.ok => e.result.err = "no enabled backends available"
           /\ e.result.ok => e.result.err = ""

C3_Witness ==
    /\ ~cfg.oxen_enabled /\ ~cfg.tor_enabled
    /\ \A t \in Targets :
          \E i \in DOMAIN calls : calls[i].target = t /\ ~calls[i].result.ok

\* C4: a returned backend is an enabled record of the call's snapshot whose
\* latency is at most that of every enabled record of its kind; with both
\* flags true and target "example.com:443" it is "oxen-node-1".
C4_LowestLatency ==
    \A i \in DOMAIN calls :
        LET e == calls[i] IN
        e.result.ok =>
            /\ \E k \in DOMAIN e.snapshot :
                  e.snapshot[k] = e.result.backend /\ e.snapshot[k].enabled
            /\ \A k \in EnabledOfKind(e.snapshot, e.result.backend.kind) :
                  e.result.backend.latency_ms <= e.snapshot[k].latency_ms
            /\ (cfg.oxen_enabled /\ cfg.tor_enabled
                  /\ e.target = "example.com:443")
                  => /\ e.result.backend.name = "oxen-node-1"
                     /\ e.result.backend.latency_ms = 55

C4_Witness ==
    /\ cfg.oxen_enabled /\ cfg.tor_enabled
    /\ \E i \in DOMAIN calls :
          /\ calls[i].target = "example.com:443"
          /\ calls[i].result.backend.name = "oxen-node-1"
          /\ Cardinality(EnabledOfKind(calls[i].snapshot, "Oxen")) = 2

\* the lexicographic order of the backend names
NameRank(name) ==
    CASE name = "oxen-node-1" -> 1
      [] name = "oxen-node-2" -> 2
      [] name = "tor-exit-1" -> 3
      [] name = "tor-exit-2" -> 4

\* the enabled records of the chosen kind that share the chosen latency
TiedWithChoice(e) ==
    { k \in EnabledOfKind(e.snapshot, e.result.backend.kind) :
        e.snapshot[k].latency_ms = e.result.backend.latency_ms }

OfKind(snapshot, kind) == { k \in DOMAIN snapshot : snapshot[k].kind = kind }

\* three records, distinct names, two Oxen and one Tor, enabled by kind
WellFormed(snapshot) ==
    /\ Len(snapshot) = 3
    /\ \A i, j \in DOMAIN snapshot :
          i # j => snapshot[i].name # snapshot[j].name
    /\ Cardinality(OfKind(snapshot, "Oxen")) = 2
    /\ Cardinality(OfKind(snapshot, "Tor")) = 1
    /\ \A k \in OfKind(snapshot, "Oxen") :
          snapshot[k].enabled = cfg.oxen_enabled
    /\ \A k \in OfKind(snapshot, "Tor") :
          snapshot[k].enabled = cfg.tor_enabled

\* C7: status never fails, and the snapshot it returns, like the snapshot of
\* every choose_backend call, holds three records with distinct names, two
\* Oxen and one Tor, each enabled exactly when the flag of its kind is set.
C7_SnapshotShape ==
    /\ status_ret # NoStatus => status_ret.ok /\ WellFormed(status_ret.backends)
    /\ \A i \in DOMAIN calls : WellFormed(calls[i].snapshot)

C7_Witness ==
    /\ status_ret.ok
    /\ cfg.oxen_enabled /\ ~cfg.tor_enabled
    /\ calls # <<>>

\* the line of the status report for a backend kind
KindLine(kind, enabled, suffix) ==
    kind \o ": " \o (IF enabled THEN "enabled" \o suffix ELSE "disabled")

\* C8 as stated: the status report has one line per backend instance of the
\* snapshot, "<Kind>: enabled" or "<Kind>: disabled" by the instance's flag.
C8_LinePerInstance ==
    stdout.command = "status" =>
        LET snapshot == sample_health(cfg) IN
        /\ Len(stdout.lines) = Len(snapshot)
        /\ \A k \in DOMAIN snapshot :
              stdout.lines[k] =
                  KindLine(snapshot[k].kind, snapshot[k].enabled, "")

\* C8 amended: the status report has one line per backend kind, Oxen then
\* Tor: "<Kind>: enabled (stubbed healthy)" when the flag of the kind is set
\* and "<Kind>: disabled" when it is not, so it has two lines, and a line
\* says enabled exactly when the instances of its kind are enabled.
C8_LinePerKind ==
    stdout.command = "status" =>
        LET snapshot == sample_health(cfg)
            suffix == " (stubbed healthy)"
        IN /\ Len(stdout.lines) = Cardinality(BackendKind)
           /\ Len(stdout.lines) # Len(snapshot)
           /\ stdout.lines[1] = KindLine("Oxen", cfg.oxen_enabled, suffix)
           /\ stdout.lines[2] = KindLine("Tor", cfg.tor_enabled, suffix)
           /\ \A k \in DOMAIN snapshot :
                 stdout.lines[IF snapshot[k].kind = "Oxen" THEN 1 ELSE 2] =
                     KindLine(snapshot[k].kind, snapshot[k].enabled, suffix)

C8_Witness ==
    /\ stdout.command = "status"
    /\ cfg.oxen_enabled /\ ~cfg.tor_enabled
    /\ Len(stdout.lines) = 2

\* C9: the target does not influence the decision: any two choose_backend
\* calls return the same backend or both fail, and a returned choice carries
\* the requested target unchanged.
C9_TargetInert ==
    \A i, j \in DOMAIN calls :
        /\ calls[i].result.ok = calls[j].result.ok
        /\ calls[i].result.backend = calls[j].result.backend
        /\ calls[i].result.ok => calls[i].result.target = calls[i].target

C9_Witness ==
    \E i, j \in DOMAIN calls :
        /\ calls[i].target # calls[j].target
        /\ calls[i].result.ok /\ calls[j].result.ok
        /\ calls[i].result.target = "example.org:80"

\* C10: the decision of the front end agrees with the router's: Oxen exactly
\* when the router returns an Oxen backend, Tor exactly when it returns a Tor
\* backend, None exactly when it returns the error.
C10_FrontEndAgrees ==
    stdout.command = "route" =>
        \A i \in DOMAIN calls :
            LET r == calls[i].result IN
            /\ stdout.choice = "Oxen" <=> (r.ok /\ r.backend.kind = "Oxen")
            /\ stdout.choice = "Tor" <=> (r.ok /\ r.backend.kind = "Tor")
            /\ stdout.choice = "None" <=> ~r.ok

C10_Witness ==
    /\ stdout.command = "route"
    /\ stdout.choice = "Tor"
    /\ \E i \in DOMAIN calls :
          calls[i].target = stdout.target /\ calls[i].result.backend.kind = "Tor"
====
